---- MODULE Spec2Model ----
(***************************************************************************)
(* Model of src/src/tasks.ts: a browser to-do list.  The in-memory task    *)
(* array, the task objects it refers to, the rendered rows of the list     *)
(* element and the "tasks" entry of localStorage are the state; the page   *)
(* load and the three event listeners (form submit, checkbox change,       *)
(* delete click) are the actions.                                          *)
(*                                                                         *)
(* Task objects have identity: the array and the listeners' closures hold  *)
(* references (object ids into heap), as in JavaScript.                    *)
(*                                                                         *)
(* JSON text is a sequence of tokens <<kind, text>>.  JSONStringify builds *)
(* the token sequence and JSONParse is a parser over it that can fail, so  *)
(* the persisted form carries values only and never object identity.       *)
(***************************************************************************)
EXTENDS Integers, Sequences, FiniteSets, TLC

\* ---------------------------------------------------------------- bounds
\* Longest task array the form is driven to.
MaxTasks == 3
\* Longest task array found in storage at the first page load.
MaxStored == 1

\* Texts the user types into .form-input ("" is the empty field, " " is
\* whitespace only).
Descriptions == {"", " ", "A"}

\* ---------------------------------------------------------------- JSON
Punct(c) == <<"punct", c>>
Str(str) == <<"string", str>>
Lit(b) == <<"literal", IF b THEN "true" ELSE "false">>
JSONNull == <<"literal", "null">>

\* One Task object, keys in creation order (description, isCompleted).
StringifyTask(t) ==
  << Punct("{"), Str("description"), Punct(":"), Str(t.description), Punct(","),
     Str("isCompleted"), Punct(":"), Lit(t.isCompleted), Punct("}") >>

RECURSIVE StringifyElements(_)
StringifyElements(vals) ==
  IF vals = <<>> THEN <<>>
  ELSE IF Len(vals) = 1 THEN StringifyTask(vals[1])
  ELSE StringifyTask(vals[1]) \o <<Punct(",")>> \o StringifyElements(Tail(vals))

\* Mutant: the completion flag is not written (every task is stored open).
JSONStringify_flagLost(vals) ==
  <<Punct("[")>>
    \o StringifyElements([i \in 1..Len(vals) |->
                            [vals[i] EXCEPT !.isCompleted = FALSE]])
    \o <<Punct("]")>>

\* JSON.stringify of an array of Task values.
JSONStringify(vals) == <<Punct("[")>> \o StringifyElements(vals) \o <<Punct("]")>>

\* Results of JSON.parse: a SyntaxError, or a value that is an array of
\* Task values or the non-array value null.
ParseThrows == [threw |-> TRUE, isArray |-> FALSE, items |-> <<>>]
ParsedNull == [threw |-> FALSE, isArray |-> FALSE, items |-> <<>>]
ParsedArray(items) == [threw |-> FALSE, isArray |-> TRUE, items |-> items]

\* Does a Task object literal start at token i of text?
IsTaskAt(text, i) ==
  /\ i + 8 <= Len(text)
  /\ text[i] = Punct("{")
  /\ text[i + 1] = Str("description")
  /\ text[i + 2] = Punct(":")
  /\ text[i + 3][1] = "string"
  /\ text[i + 4] = Punct(",")
  /\ text[i + 5] = Str("isCompleted")
  /\ text[i + 6] = Punct(":")
  /\ text[i + 7] \in {Lit(TRUE), Lit(FALSE)}
  /\ text[i + 8] = Punct("}")

TaskAt(text, i) ==
  [description |-> text[i + 3][2], isCompleted |-> (text[i + 7] = Lit(TRUE))]

RECURSIVE ParseElements(_, _, _)
ParseElements(text, i, acc) ==
  IF ~IsTaskAt(text, i) THEN ParseThrows
  ELSE IF i + 9 > Len(text) THEN ParseThrows
  ELSE IF text[i + 9] = Punct(",")
    THEN ParseElements(text, i + 10, Append(acc, TaskAt(text, i)))
  ELSE IF text[i + 9] = Punct("]") /\ i + 9 = Len(text)
    THEN ParsedArray(Append(acc, TaskAt(text, i)))
  ELSE ParseThrows

\* JSON.parse on the texts the "tasks" key holds here: null, an array of
\* Task object literals, or a text that is not JSON.
JSONParse(text) ==
  IF text = <<JSONNull>> THEN ParsedNull
  ELSE IF Len(text) < 2 \/ text[1] # Punct("[") THEN ParseThrows
  ELSE IF text = <<Punct("["), Punct("]")>> THEN ParsedArray(<<>>)
  ELSE ParseElements(text, 2, <<>>)

\* ---------------------------------------------------------------- storage
\* localStorage is a map from keys to texts; a key that was never set is
\* missing from the domain.
NoStorage == [k \in {} |-> <<>>]
setItem(store, key, text) == [k \in (DOMAIN store) \cup {key} |->
                                IF k = key THEN text ELSE store[k]]
hasItem(store, key) == key \in DOMAIN store

\* ---------------------------------------------------------------- state
VARIABLES
  dom,          \* which of .form, .form-input, .list the page has
  status,       \* "ok", or the error that aborted the script at page load
  tasks,        \* the tasks array: a sequence of references to Task objects
  heap,         \* the Task objects: reference -> [description, isCompleted]
  rows,         \* the <li> children of .list, in document order
  localStorage, \* the browser's key-value store
  inputValue,   \* .form-input's value
  lastEvent,    \* the event handled last and what its handler did
  beforeToggle  \* values and storage before a run of changes on one checkbox

vars == << dom, status, tasks, heap, rows, localStorage, inputValue,
           lastEvent, beforeToggle >>

\* The rows as an event finds them: none of them was created by it.
Settled(list) == [i \in 1..Len(list) |-> [list[i] EXCEPT !.created = FALSE]]

\* The part of the state the functions of tasks.ts read and write, as one
\* record.  steps lists the handler's effects in execution order ("mutate"
\* the array or a task, "persist" to storage, "render" into .list); alerted
\* says whether alert() was called; error is the exception that ended the
\* handler ("none": it returned).
Cur ==
  [ dom |-> dom, tasks |-> tasks, heap |-> heap, rows |-> Settled(rows),
    localStorage |-> localStorage, inputValue |-> inputValue,
    steps |-> <<>>, alerted |-> FALSE, error |-> "none" ]

\* The array as values: the Task at every position.
TaskValues(s) == [i \in 1..Len(s.tasks) |-> s.heap[s.tasks[i]]]

\* The (description, isCompleted) pair deleteTask compares.
SamePair(a, b) ==
  a.description = b.description /\ a.isCompleted = b.isCompleted

\* A reference no live object has: what an object literal evaluates to.
NewObject(s) ==
  CHOOSE o \in 1..(Cardinality(DOMAIN s.heap) + 1) : o \notin DOMAIN s.heap

\* ---------------------------------------------------------------- tasks.ts
\* Mutant: the snapshot is left as it was.
updateStorage_skipped(s) == s

\* Mutant: tasks are unshifted instead of pushed.
addTask_front(s, o) ==
  [s EXCEPT !.tasks = <<o>> \o @, !.steps = Append(@, "mutate")]

updateStorage(s) ==
  [s EXCEPT
     !.localStorage = setItem(@, "tasks", JSONStringify(TaskValues(s))),
     !.steps = Append(@, "persist")]

addTask(s, o) ==
  [s EXCEPT !.tasks = Append(@, o), !.steps = Append(@, "mutate")]

\* Mutant: line 86 is left out, every checkbox is rendered unchecked.
TaskElement_unchecked(s, o) ==
  [task |-> o, text |-> s.heap[o].description,
   checked |-> FALSE, created |-> TRUE]

\* The <li> renderTask builds: the span's text, the checkbox's checked
\* state, and the task object both listeners close over.  created marks an
\* element made by document.createElement during the event being handled.
TaskElement(s, o) ==
  [task |-> o, text |-> s.heap[o].description,
   checked |-> s.heap[o].isCompleted, created |-> TRUE]

\* Mutant: taskListElement.appendChild without the optional chaining, a
\* TypeError on a page without .list.
renderTask_unguarded(s, o) ==
  IF s.dom.list
    THEN [s EXCEPT !.rows = Append(@, TaskElement(s, o)),
                   !.steps = Append(@, "render")]
    ELSE [s EXCEPT !.error = "TypeError"]

renderTask(s, o) ==
  IF s.dom.list
    THEN [s EXCEPT !.rows = Append(@, TaskElement(s, o)),
                   !.steps = Append(@, "render")]
    ELSE s

\* tasks.forEach(renderTask)
RECURSIVE forEachRenderTask(_, _)
forEachRenderTask(s, list) ==
  IF list = <<>> THEN s
  ELSE forEachRenderTask(renderTask(s, Head(list)), Tail(list))

\* tasks.findIndex(pred on the pair), 1-based; 0 stands for -1.
RECURSIVE findIndexFrom(_, _, _)
findIndexFrom(s, target, i) ==
  IF i > Len(s.tasks) THEN 0
  ELSE IF SamePair(s.heap[s.tasks[i]], target) THEN i
  ELSE findIndexFrom(s, target, i + 1)

\* Mutant: the last matching index instead of the first.
findIndex_last(s, target) ==
  LET hits == {i \in 1..Len(s.tasks) : SamePair(s.heap[s.tasks[i]], target)}
  IN IF hits = {} THEN 0 ELSE CHOOSE i \in hits : \A j \in hits : j <= i

findIndex(s, target) == findIndexFrom(s, target, 1)

\* Mutant: splice(i) without a count removes everything from i on.
splice1_toEnd(seq, i) == SubSeq(seq, 1, i - 1)

\* tasks.splice(i, 1)
splice1(seq, i) == SubSeq(seq, 1, i - 1) \o SubSeq(seq, i + 1, Len(seq))

\* Mutant: the rows are left as they were after the removal.
deleteTask_noRerender(s, taskToDelete) ==
  LET taskIndex == findIndex(s, s.heap[taskToDelete]) IN
  IF taskIndex # 0
    THEN updateStorage([s EXCEPT !.tasks = splice1(@, taskIndex),
                                 !.steps = Append(@, "mutate")])
    ELSE s

\* Mutant: the snapshot is rewritten whether or not a task was removed.
deleteTask_alwaysPersists(s, taskToDelete) ==
  LET taskIndex == findIndex(s, s.heap[taskToDelete]) IN
  IF taskIndex # 0
    THEN LET s1 == [s EXCEPT !.tasks = splice1(@, taskIndex),
                             !.steps = Append(@, "mutate")]
             s2 == updateStorage(s1)
         IN IF s2.dom.list
              THEN forEachRenderTask(
                     [s2 EXCEPT !.rows = <<>>, !.steps = Append(@, "render")],
                     s2.tasks)
              ELSE s2
    ELSE updateStorage(s)

deleteTask(s, taskToDelete) ==
  LET taskIndex == findIndex(s, s.heap[taskToDelete]) IN
  IF taskIndex # 0
    THEN LET s1 == [s EXCEPT !.tasks = splice1(@, taskIndex),
                             !.steps = Append(@, "mutate")]
             s2 == updateStorage(s1)
         IN IF s2.dom.list
              THEN forEachRenderTask(
                     [s2 EXCEPT !.rows = <<>>, !.steps = Append(@, "render")],
                     s2.tasks)
              ELSE s2
    ELSE s

\* Mutant: the flag is set instead of flipped.
changeListener_setTrue(s, task) ==
  updateStorage([s EXCEPT !.heap[task].isCompleted = TRUE,
                          !.steps = Append(@, "mutate")])

\* Mutant: the task to flip is looked up by its pair, as deleteTask does.
changeListener_byValue(s, task) ==
  LET o == s.tasks[findIndex(s, s.heap[task])]
  IN updateStorage([s EXCEPT !.heap[o].isCompleted = ~@,
                             !.steps = Append(@, "mutate")])

\* The checkbox's change listener.
changeListener(s, task) ==
  updateStorage([s EXCEPT !.heap[task].isCompleted = ~@,
                          !.steps = Append(@, "mutate")])

\* The delete button's click listener.
clickListener(s, task) == deleteTask(s, task)

\* Mutant: the value is trimmed before the test.
truthy_trimmed(hasInput, value) == hasInput /\ value \notin {"", " "}

\* Truthiness of formInput?.value: undefined (no input element) and ""
\* are the falsy values; any other string, blank ones too, is truthy.
truthy(hasInput, value) == hasInput /\ value # ""

\* Mutant: the snapshot is written before the row is rendered.
acceptSubmit_persistFirst(s, taskDescription) ==
  LET task == NewObject(s)
      s0 == [s EXCEPT !.heap = [o \in DOMAIN s.heap \cup {task} |->
               IF o = task
                 THEN [description |-> taskDescription, isCompleted |-> FALSE]
                 ELSE s.heap[o]]]
      s1 == addTask(s0, task)
      s2 == updateStorage(s1)
      s3 == renderTask(s2, task)
  IN [s3 EXCEPT !.inputValue = ""]

\* Mutant: the list is cleared and every task rendered again, as deleteTask
\* does.
acceptSubmit_fullRerender(s, taskDescription) ==
  LET task == NewObject(s)
      s0 == [s EXCEPT !.heap = [o \in DOMAIN s.heap \cup {task} |->
               IF o = task
                 THEN [description |-> taskDescription, isCompleted |-> FALSE]
                 ELSE s.heap[o]]]
      s1 == addTask(s0, task)
      s2 == IF s1.dom.list
              THEN forEachRenderTask(
                     [s1 EXCEPT !.rows = <<>>, !.steps = Append(@, "render")],
                     s1.tasks)
              ELSE s1
      s3 == updateStorage(s2)
  IN [s3 EXCEPT !.inputValue = ""]

\* Lines 42-53: the branch of the submit listener for a truthy value.
acceptSubmit(s, taskDescription) ==
  LET task == NewObject(s)
      s0 == [s EXCEPT !.heap = [o \in DOMAIN s.heap \cup {task} |->
               IF o = task
                 THEN [description |-> taskDescription, isCompleted |-> FALSE]
                 ELSE s.heap[o]]]
      s1 == addTask(s0, task)
      s2 == renderTask(s1, task)
      s3 == updateStorage(s2)
  IN [s3 EXCEPT !.inputValue = ""]

\* Mutant: the snapshot is rewritten before the alert.
rejectSubmit_persists(s) == [updateStorage(s) EXCEPT !.alerted = TRUE]

\* Line 55: the listener falls through to the alert.
rejectSubmit(s) == [s EXCEPT !.alerted = TRUE]

\* The form's submit listener.
submitListener(s) ==
  IF truthy(s.dom.input, s.inputValue)
    THEN acceptSubmit(s, s.inputValue)
    ELSE rejectSubmit(s)

\* localStorage.getItem('tasks') and the ternary on it: a missing item
\* (null) and the empty string are falsy.
loadTasks(store) ==
  IF hasItem(store, "tasks") /\ store["tasks"] # <<>>
    THEN JSONParse(store["tasks"])
    ELSE ParsedArray(<<>>)

\* The script's top level, lines 4-22 and 35: query the page, load, render
\* what was loaded.  A SyntaxError from JSON.parse, or the TypeError of
\* calling forEach on a value that is no array, aborts the script before
\* any listener is registered.
Startup(store, page) ==
  LET loaded == loadTasks(store)
      n == Len(loaded.items)
      blank == [dom |-> page, tasks |-> <<>>, heap |-> [o \in {} |-> 0],
                rows |-> <<>>, localStorage |-> store, inputValue |-> "",
                steps |-> <<>>, alerted |-> FALSE, error |-> "none",
                status |-> "ok"]
  IN IF loaded.threw THEN [blank EXCEPT !.status = "SyntaxError"]
     ELSE IF ~loaded.isArray THEN [blank EXCEPT !.status = "TypeError"]
     ELSE LET s0 == [blank EXCEPT !.tasks = [i \in 1..n |-> i],
                                  !.heap = [o \in 1..n |-> loaded.items[o]]]
          IN forEachRenderTask(s0, s0.tasks)

\* ---------------------------------------------------------------- Init
\* Tasks a snapshot written by updateStorage can hold.
StoredTask ==
  [description : Descriptions \ {""}, isCompleted : BOOLEAN]

RECURSIVE SeqsUpTo(_, _)
SeqsUpTo(S, n) ==
  IF n = 0 THEN {<<>>}
  ELSE LET shorter == SeqsUpTo(S, n - 1)
       IN shorter \cup {Append(q, x) : q \in shorter, x \in S}

\* Snapshots an earlier session of the page wrote.
WrittenTexts == {JSONStringify(q) : q \in SeqsUpTo(StoredTask, MaxStored)}

\* Snapshots that do not decode to an array: a written snapshot that lost
\* its last token, and the JSON text null.
CorruptTexts ==
  {SubSeq(x, 1, Len(x) - 1) : x \in WrittenTexts} \cup {<<JSONNull>>}

InitialStorage ==
  {NoStorage}
    \cup {setItem(NoStorage, "tasks", x) :
            x \in {<<>>} \cup WrittenTexts \cup CorruptTexts}

NoToggle == [values |-> <<>>, store |-> NoStorage]

\* What is recorded of an event: its kind, the row acted on (0: none), the
\* text submitted, for a delete click the number of array elements whose
\* pair equalled the target's, for a change whether it is the first or the
\* second in a row on one checkbox, and the handler's alert, steps and error.
Event(kind, row, text, matched, streak, s) ==
  [kind |-> kind, row |-> row, text |-> text, matched |-> matched,
   streak |-> streak, alerted |-> s.alerted, steps |-> s.steps,
   error |-> s.error]

\* Array positions whose pair equals that of the object target refers to.
Matches(target) ==
  {j \in 1..Len(tasks) : SamePair(heap[tasks[j]], heap[target])}

\* References still held by the array or by a rendered row's listeners.
Live(s) == {s.tasks[i] : i \in 1..Len(s.tasks)}
             \cup {s.rows[i].task : i \in 1..Len(s.rows)}

\* The state a handler leaves; unreachable objects are collected.
Commit(s) ==
  /\ tasks' = s.tasks
  /\ heap' = [o \in Live(s) |-> s.heap[o]]
  /\ rows' = s.rows
  /\ localStorage' = s.localStorage
  /\ inputValue' = s.inputValue
  /\ dom' = s.dom

Init ==
  /\ dom \in [form : BOOLEAN, input : BOOLEAN, list : BOOLEAN]
  /\ localStorage \in InitialStorage
  /\ LET s == Startup(localStorage, dom)
     IN /\ status = s.status
        /\ tasks = s.tasks
        /\ heap = s.heap
        /\ rows = s.rows
        /\ inputValue = s.inputValue
        /\ lastEvent = Event("load", 0, "", 0, 1, s)
  /\ beforeToggle = NoToggle

\* ---------------------------------------------------------------- actions
\* The page is loaded again: the script runs from the top on what is stored.
PageLoad ==
  LET s == Startup(localStorage, dom)
  IN /\ Commit(s)
     /\ status' = s.status
     /\ lastEvent' = Event("load", 0, "", 0, 1, s)
     /\ beforeToggle' = NoToggle

\* The user leaves text d in the input (when there is one) and submits.
Submit(d) ==
  /\ status = "ok"
  /\ dom.form
  /\ Len(tasks) < MaxTasks
  /\ dom.input \/ d = ""
  /\ LET s == submitListener([Cur EXCEPT !.inputValue = d])
     IN /\ Commit(s)
        /\ lastEvent' = Event("submit", 0, d, 0, 1, s)
  /\ beforeToggle' = NoToggle
  /\ UNCHANGED status

\* The user clicks the checkbox of row i: the browser flips the box, then
\* fires change.
Change(i) ==
  /\ status = "ok"
  /\ i \in 1..Len(rows)
  /\ LET again == lastEvent.kind = "change" /\ lastEvent.row = i
                    /\ lastEvent.streak = 1
         s == changeListener([Cur EXCEPT !.rows[i].checked = ~@],
                             rows[i].task)
     IN /\ Commit(s)
        /\ lastEvent' = Event("change", i, "", 0, IF again THEN 2 ELSE 1, s)
        /\ beforeToggle' =
             IF again THEN beforeToggle
             ELSE [values |-> TaskValues(Cur), store |-> localStorage]
  /\ UNCHANGED status

\* The user clicks the Delete button of row i.
Click(i) ==
  /\ status = "ok"
  /\ i \in 1..Len(rows)
  /\ LET s == clickListener(Cur, rows[i].task)
     IN /\ Commit(s)
        /\ lastEvent' = Event("click", i, "", Cardinality(Matches(rows[i].task)), 1, s)
  /\ beforeToggle' = NoToggle
  /\ UNCHANGED status

Next ==
  \/ PageLoad
  \/ \E d \in Descriptions : Submit(d)
  \/ \E i \in 1..MaxTasks : Change(i)
  \/ \E i \in 1..MaxTasks : Click(i)

Spec == Init /\ [][Next]_vars

\* deleteTask called directly with a Task of value v that the array need
\* not hold, as a caller other than the rows' listeners could.
DeleteCall(v) ==
  /\ status = "ok"
  /\ LET o == NewObject(Cur)
         s0 == [Cur EXCEPT !.heap = [x \in DOMAIN heap \cup {o} |->
                  IF x = o THEN v ELSE heap[x]]]
         s == deleteTask(s0, o)
         hits == {j \in 1..Len(tasks) : SamePair(heap[tasks[j]], v)}
     IN /\ Commit(s)
        /\ lastEvent' = Event("call", 0, "", Cardinality(hits), 1, s)
  /\ beforeToggle' = NoToggle
  /\ UNCHANGED status

NextCalls ==
  \/ Next
  \/ \E v \in StoredTask : DeleteCall(v)

\* The page's events together with direct calls of deleteTask.
SpecCalls == Init /\ [][NextCalls]_vars

\* ---------------------------------------------------------------- claims
\* The text stored under "tasks" (the empty text when the key is missing).
StoredText == IF hasItem(localStorage, "tasks") THEN localStorage["tasks"]
              ELSE <<>>

\* The last event was a submit whose text was accepted.
Added == lastEvent.kind = "submit" /\ ~lastEvent.alerted

\* C1: after every completed add, toggle or delete event the value stored
\* under "tasks" is the serialization of the in-memory task sequence: it is
\* the text JSON.stringify gives for it, and it decodes to the same length,
\* order, description and isCompleted at every position.
C1_SnapshotIsSerializedTasks ==
  (Added \/ lastEvent.kind \in {"change", "click"}) =>
    /\ hasItem(localStorage, "tasks")
    /\ StoredText = JSONStringify(TaskValues(Cur))
    /\ JSONParse(StoredText) = ParsedArray(TaskValues(Cur))

\* A toggle has just been persisted while two tasks are held, one completed.
C1_Witness ==
  /\ lastEvent.kind = "change"
  /\ Len(tasks) = 2
  /\ \E i \in 1..2 : heap[tasks[i]].isCompleted
  /\ JSONParse(StoredText) = ParsedArray(TaskValues(Cur))

\* The stored snapshot does not decode to an array.
Undecodable ==
  /\ hasItem(localStorage, "tasks")
  /\ StoredText # <<>>
  /\ JSONParse(StoredText).threw \/ ~JSONParse(StoredText).isArray

\* C2: after a page load with no snapshot stored, or with a corrupt one,
\* loadTasks has returned an empty sequence without raising an error and
\* startup has proceeded with zero tasks.
C2_MissingOrCorruptLoadsEmpty ==
  (lastEvent.kind = "load" /\ (~hasItem(localStorage, "tasks") \/ Undecodable))
    => /\ loadTasks(localStorage) = ParsedArray(<<>>)
       /\ status = "ok"
       /\ tasks = <<>>

\* Texts that are empty or whitespace only.
Blank == {"", " "}

\* C3 as the spec states it: a submit whose text is empty or whitespace only
\* leaves the task sequence unchanged and raises the alert.
C3_BlankSubmitRejected ==
  [][\A d \in Blank : Submit(d) =>
       /\ tasks' = tasks
       /\ TaskValues(Cur)' = TaskValues(Cur)
       /\ lastEvent'.alerted]_vars

\* C3 amended: a submit whose text is empty leaves the task sequence
\* unchanged and raises the alert; a whitespace-only text is accepted like
\* any other, appended as a task and raises no alert.
C3_EmptySubmitRejected ==
  [][\A d \in Blank : Submit(d) =>
       IF d = ""
         THEN /\ tasks' = tasks
              /\ TaskValues(Cur)' = TaskValues(Cur)
              /\ lastEvent'.alerted
         ELSE /\ ~lastEvent'.alerted
              /\ TaskValues(Cur)' =
                   Append(TaskValues(Cur),
                          [description |-> d, isCompleted |-> FALSE])]_vars

\* An empty text typed into an existing input has just been rejected while
\* a task with a whitespace-only description is held.
C3_Witness ==
  /\ lastEvent.kind = "submit"
  /\ lastEvent.alerted
  /\ lastEvent.text = ""
  /\ dom.input
  /\ \E i \in 1..Len(tasks) : heap[tasks[i]].description = " "

\* C4: a submit with an accepted description d yields a sequence one longer
\* whose first old elements are the same objects with the same values and
\* whose last element is {description: d, isCompleted: false}.
C4_AddAppends ==
  [][\A d \in Descriptions : (Submit(d) /\ ~lastEvent'.alerted) =>
       /\ Len(tasks') = Len(tasks) + 1
       /\ \A i \in 1..Len(tasks) :
            tasks'[i] = tasks[i] /\ heap'[tasks'[i]] = heap[tasks[i]]
       /\ heap'[tasks'[Len(tasks')]] =
            [description |-> d, isCompleted |-> FALSE]]_vars

\* A task was just added behind an older task with the same description.
C4_Witness ==
  /\ Added
  /\ Len(tasks) >= 2
  /\ heap[tasks[Len(tasks)]].description = heap[tasks[1]].description
  /\ heap[tasks[Len(tasks)]] = [description |-> lastEvent.text,
                                isCompleted |-> FALSE]

\* seq without the element at position i.
Without(seq, i) ==
  [j \in 1..(Len(seq) - 1) |-> IF j < i THEN seq[j] ELSE seq[j + 1]]

\* Every object of the array after the step has the value it had before.
OthersUntouched ==
  \A j \in 1..Len(tasks') : heap'[tasks'[j]] = heap[tasks'[j]]

\* C5: deleteTask on a task whose pair occurs exactly once removes that
\* element; every other task stays, unmodified, in its relative order.
C5_DeleteUnique ==
  [][\A i \in 1..Len(rows) :
       (Click(i) /\ Cardinality(Matches(rows[i].task)) = 1) =>
         /\ tasks' = SelectSeq(tasks, LAMBDA o : o # rows[i].task)
         /\ Len(tasks') = Len(tasks) - 1
         /\ OthersUntouched]_vars

\* A delete of a task with a unique pair has left two tasks behind.
C5_Witness ==
  /\ lastEvent.kind = "click"
  /\ lastEvent.matched = 1
  /\ lastEvent.row = 2
  /\ Len(tasks) = 2

\* The lowest array position whose pair equals the target's.
FirstMatch(target) ==
  CHOOSE m \in Matches(target) : \A j \in Matches(target) : m <= j

\* C6: when several tasks share the target's pair, deleteTask removes
\* exactly one element, the one at the lowest matching index; the length
\* drops by 1 and the other matching instances remain.
C6_DeleteFirstOfDuplicates ==
  [][\A i \in 1..Len(rows) :
       (Click(i) /\ Cardinality(Matches(rows[i].task)) >= 2) =>
         /\ Len(tasks') = Len(tasks) - 1
         /\ tasks' = Without(tasks, FirstMatch(rows[i].task))
         /\ OthersUntouched
         /\ \A j \in Matches(rows[i].task) \ {FirstMatch(rows[i].task)} :
              \E k \in 1..Len(tasks') : tasks'[k] = tasks[j]]_vars

\* The Delete of a later duplicate was clicked and a task remains.
C6_Witness ==
  /\ lastEvent.kind = "click"
  /\ lastEvent.matched >= 2
  /\ lastEvent.row >= 2
  /\ Len(tasks) >= 1

\* C7: a checkbox change flips that task's isCompleted and the stored
\* snapshot shows the flipped flag at the task's position; after two
\* consecutive changes on one checkbox the task values and the stored
\* snapshot are what they were before the first.
C7_ToggleFlipsAndTwiceRestores ==
  /\ [][\A i \in 1..Len(rows) : Change(i) =>
          LET o == rows[i].task IN
          /\ heap'[o].isCompleted = ~heap[o].isCompleted
          /\ \A k \in 1..Len(tasks') : tasks'[k] = o =>
               /\ JSONParse(localStorage'["tasks"]).isArray
               /\ JSONParse(localStorage'["tasks"]).items[k].isCompleted
                    = ~heap[o].isCompleted]_vars
  /\ []((lastEvent.kind = "change" /\ lastEvent.streak = 2) =>
          /\ TaskValues(Cur) = beforeToggle.values
          /\ localStorage = beforeToggle.store)

\* The same checkbox was changed twice in a row, with another task beside.
C7_Witness ==
  /\ lastEvent.kind = "change"
  /\ lastEvent.streak = 2
  /\ Len(tasks) >= 2
  /\ TaskValues(Cur) = beforeToggle.values
  /\ localStorage = beforeToggle.store

\* C8: a page load after updateStorage wrote the task sequence restores a
\* sequence equal to it in length, order, description and isCompleted; a
\* page load with no snapshot stored restores the empty sequence.
C8_PersistRestoreRoundTrip ==
  [][PageLoad =>
       /\ (status = "ok" /\ \E k \in 1..Len(lastEvent.steps) :
                              lastEvent.steps[k] = "persist")
            => (status' = "ok" /\ TaskValues(Cur)' = TaskValues(Cur))
       /\ ~hasItem(localStorage, "tasks")
            => (status' = "ok" /\ tasks' = <<>>)]_vars

\* A page load restored more tasks than the first snapshot can hold, one of
\* them completed: the snapshot was written by updateStorage.
C8_Witness ==
  /\ lastEvent.kind = "load"
  /\ status = "ok"
  /\ Len(tasks) > MaxStored
  /\ \E i \in 1..Len(tasks) : heap[tasks[i]].isCompleted
  /\ \E i \in 1..Len(tasks) : ~heap[tasks[i]].isCompleted

\* The last event ran a listener that changed the array or a task.
Mutated ==
  /\ lastEvent.kind \in {"submit", "change", "click"}
  /\ \E k \in 1..Len(lastEvent.steps) : lastEvent.steps[k] = "mutate"

\* C9 as the spec states it: within every mutating event the array is
\* mutated, then persisted, then the view is updated; no view update comes
\* before the persist.
C9_MutatePersistRender ==
  Mutated =>
    \A k \in 1..Len(lastEvent.steps) :
      /\ lastEvent.steps[k] = "persist" =>
           \E j \in 1..(k - 1) : lastEvent.steps[j] = "mutate"
      /\ lastEvent.steps[k] = "render" =>
           \E j \in 1..(k - 1) : lastEvent.steps[j] = "persist"

\* n times "render".
Renders(n) == [k \in 1..n |-> "render"]

\* C9 amended: a delete click mutates, persists, then re-renders the list
\* (clearing it, then one row per task); a checkbox change mutates, then
\* persists, and its listener updates no view; an accepted submit mutates,
\* then renders the new row (when the list exists), and persists last, so
\* there the view is updated before the mutation is persisted.
C9_StepOrderPerEvent ==
  Mutated =>
    lastEvent.steps =
      CASE lastEvent.kind = "submit" ->
             <<"mutate">> \o Renders(IF dom.list THEN 1 ELSE 0)
               \o <<"persist">>
        [] lastEvent.kind = "change" -> <<"mutate", "persist">>
        [] lastEvent.kind = "click" ->
             <<"mutate", "persist">>
               \o Renders(IF dom.list THEN 1 + Len(tasks) ELSE 0)

\* A submit has rendered its row before persisting.
C9_Witness ==
  /\ lastEvent.kind = "submit"
  /\ lastEvent.steps = <<"mutate", "render", "persist">>
  /\ Len(rows) = Len(tasks)

\* C10: a submit with an empty description, or with the input element
\* missing, raises the alert and changes nothing else: no task is added,
\* updateStorage is not called and the snapshot is unchanged, and no row is
\* added.
C10_RejectedSubmitChangesNothing ==
  [][\A d \in Descriptions : (Submit(d) /\ (d = "" \/ ~dom.input)) =>
       /\ lastEvent'.alerted
       /\ lastEvent'.steps = <<>>
       /\ rows' = Settled(rows)
       /\ UNCHANGED <<tasks, heap, localStorage, status, dom>>]_vars

\* A submit was rejected for want of an input element, with nothing stored.
C10_Witness ==
  /\ lastEvent.kind = "submit"
  /\ lastEvent.alerted
  /\ ~dom.input
  /\ ~hasItem(localStorage, "tasks")

C12_MissingElementsSkipped ==
  [][(status = "ok" /\ (~dom.form \/ ~dom.input \/ ~dom.list)) =>
       /\ status' = "ok"
       /\ lastEvent'.error = "none"
       /\ ~dom.form => \A d \in Descriptions : ~Submit(d)
       /\ ~dom.input => \A d \in Descriptions : Submit(d) =>
            /\ lastEvent'.alerted
            /\ lastEvent'.steps = <<>>
            /\ rows' = Settled(rows)
            /\ UNCHANGED <<tasks, heap, localStorage>>
       /\ ~dom.list => \A d \in Descriptions :
            (Submit(d) /\ ~lastEvent'.alerted) =>
              /\ TaskValues(Cur)' =
                   Append(TaskValues(Cur),
                          [description |-> d, isCompleted |-> FALSE])
              /\ hasItem(localStorage', "tasks")
              /\ JSONParse(localStorage'["tasks"])
                   = ParsedArray(TaskValues(Cur)')
              /\ lastEvent'.steps = <<"mutate", "persist">>
              /\ rows' = <<>>]_vars

\* On a page without the list container a second task was added and
\* persisted, and no row exists.
C12_Witness ==
  /\ ~dom.list
  /\ Added
  /\ lastEvent.error = "none"
  /\ Len(tasks) >= 2
  /\ rows = <<>>
  /\ JSONParse(StoredText) = ParsedArray(TaskValues(Cur))

\* C14: an accepted submit renders incrementally: the rows that existed are
\* still there, in place and not re-created, exactly one new row is appended
\* behind them in the rendered list, and the input field is empty afterwards.
C14_SubmitRendersOneRow ==
  [][\A d \in Descriptions : (Submit(d) /\ ~lastEvent'.alerted) =>
       /\ inputValue' = ""
       /\ SubSeq(rows', 1, Len(rows)) = Settled(rows)
       /\ dom.list =>
            /\ Len(rows') = Len(rows) + 1
            /\ rows'[Len(rows')].created
            /\ rows'[Len(rows')].text = d
            /\ ~rows'[Len(rows')].checked]_vars

\* A third row was appended behind two older rows that were not re-created.
C14_Witness ==
  /\ Added
  /\ dom.list
  /\ Len(rows) = 3
  /\ rows[3].created
  /\ ~rows[1].created /\ ~rows[2].created
  /\ inputValue = ""

\* C15: a checkbox change on row i changes only the isCompleted flag of the
\* task at position i, also when other tasks have the same description and
\* flag: the array holds the same objects in the same order, every
\* description and every other task's flag are unchanged.
C15_ToggleTouchesOnlyItsTask ==
  [][\A i \in 1..Len(rows) : Change(i) =>
       /\ tasks' = tasks
       /\ Len(TaskValues(Cur)') = Len(tasks)
       /\ \A j \in 1..Len(tasks) :
            heap'[tasks[j]] =
              IF j = i THEN [heap[tasks[j]] EXCEPT !.isCompleted = ~@]
              ELSE heap[tasks[j]]]_vars

\* The checkbox of row 2 was changed while row 1 had the same description
\* and, until then, the same flag.
C15_Witness ==
  /\ lastEvent.kind = "change"
  /\ lastEvent.row = 2
  /\ lastEvent.streak = 1
  /\ Len(tasks) >= 2
  /\ heap[tasks[1]].description = heap[tasks[2]].description
  /\ heap[tasks[1]].isCompleted # heap[tasks[2]].isCompleted
  /\ beforeToggle.values[1] = beforeToggle.values[2]

\* The task a row's listeners are bound to is an element of the array.
Bound(i) == \E j \in 1..Len(tasks) : tasks[j] = rows[i].task

\* C16: in every state reached through startup, submits, checkbox changes
\* and delete clicks the task bound to each rendered row is an element of
\* the array, so every delete click finds a match, shortens the array by
\* exactly 1 and never takes the no-match path.
C16_DeleteClickAlwaysMatches ==
  /\ [](\A i \in 1..Len(rows) : Bound(i))
  /\ [][\A i \in 1..Len(rows) : Click(i) =>
          /\ findIndex(Cur, heap[rows[i].task]) # 0
          /\ Len(tasks') = Len(tasks) - 1
          /\ lastEvent'.steps # <<>>
          /\ lastEvent'.steps[1] = "mutate"]_vars

\* A delete click removed a task and every remaining row is still bound to
\* an element of the array.
C16_Witness ==
  /\ lastEvent.kind = "click"
  /\ lastEvent.matched >= 1
  /\ lastEvent.steps[1] = "mutate"
  /\ Len(rows) = MaxTasks - 1
  /\ \A i \in 1..Len(rows) : Bound(i)

\* What a row shows: its text and its checkbox.
RowViews(list) ==
  [i \in 1..Len(list) |-> [text |-> list[i].text, checked |-> list[i].checked]]

\* C17: a delete click on the row at position i leaves a task sequence and a
\* rendered list that are, in descriptions, flags and order, the previous
\* ones with position i removed, also when other tasks share that row's
\* description and isCompleted.  (deleteTask removes the first task with
\* the row's pair, which need not be at position i.)
C17_DeleteClickRemovesRow ==
  [][\A i \in 1..Len(rows) : Click(i) =>
       /\ TaskValues(Cur)' = Without(TaskValues(Cur), i)
       /\ RowViews(rows') = Without(RowViews(rows), i)]_vars

\* C13: deleteTask called with a target whose pair matches no element of
\* the array is a silent no-op: the array and its tasks, the stored snapshot
\* and the rendered list are unchanged, nothing is persisted or rendered and
\* no alert or error is raised.
C13_DeleteNoMatchIsNoOp ==
  [][\A v \in StoredTask :
       (DeleteCall(v)
          /\ \A j \in 1..Len(tasks) : ~SamePair(heap[tasks[j]], v)) =>
         /\ lastEvent'.steps = <<>>
         /\ ~lastEvent'.alerted
         /\ lastEvent'.error = "none"
         /\ rows' = Settled(rows)
         /\ UNCHANGED <<tasks, heap, localStorage, status>>]_vars

\* deleteTask was called with a task that matched none of the tasks held
\* and rendered.
C13_Witness ==
  /\ lastEvent.kind = "call"
  /\ lastEvent.matched = 0
  /\ lastEvent.steps = <<>>
  /\ Len(tasks) >= 2
  /\ Len(rows) = Len(tasks)

====
